---------------------------- MODULE Spec2Model ----------------------------
(***************************************************************************)
(* Model of the macaroon login flow of webapp/login/views.py: the session  *)
(* record, the /login handler, the provider callback (after_login), the    *)
(* /logout handler and the authenticated backend operations.               *)
(*                                                                         *)
(* Conventions.                                                            *)
(*  - A Python dict is a function whose DOMAIN is the set of keys present. *)
(*  - A text (URL) is a sequence of one-character strings.                 *)
(*  - login.session, login.request, login.redirect, login.abort and        *)
(*    login.url_for denote Flask's request-context objects of the same     *)
(*    name (line 298-299 uses them as flask.session and flask.redirect);   *)
(*    dashboard.get_account denotes get_account of lines 65-73.            *)
(*  - abort(code) raises: the handler stops there with that status.        *)
(*  - Line 315 (a lone full stop) is read as an empty line.                *)
(*  - The provider's response always carries both extensions asked for     *)
(*    with extension_responses (line 22-24).                               *)
(*  - An exception no handler catches ends the request with status 500.    *)
(***************************************************************************)
EXTENDS Integers, Sequences, FiniteSets, TLC

VARIABLES
    session,    \* the session record of one user agent (flask.session)
    asked,      \* the caveat ids this session's logins sent to the provider
    last        \* the request handled last: inputs, response, outbound calls

vars == <<session, asked, last>>

\* Number of distinct root macaroons the issuance endpoint hands out.
MaxRoots == 2

(***************************************************************************)
(* Dicts                                                                   *)
(***************************************************************************)
EmptyDict == [k \in {} |-> 0]

Has(d, k) == k \in DOMAIN d

SetKey(d, k, v) == [x \in (DOMAIN d) \cup {k} |-> IF x = k THEN v ELSE d[x]]

(***************************************************************************)
(* views.py 18-20                                                          *)
(***************************************************************************)
LOGIN_URL ==
    <<"h","t","t","p","s",":","/","/","l","o","g","i","n",".",
      "u","b","u","n","t","u",".","c","o","m">>

LP_CANONICAL_TEAM == "canonical"

(***************************************************************************)
(* webapp.authentication and webapp.login.macaroon (not part of the        *)
(* sources at hand): modelled from the specification.                      *)
(***************************************************************************)
\* The provider's host name: the location of the third-party caveat.
LoginHost == "login.ubuntu.com"

\* Root macaroon number n; number 0 carries no caveat for the provider.
Macaroon(n) ==
    [serial |-> n,
     caveats |-> IF n = 0 THEN {}
                 ELSE {[location |-> LoginHost, caveat_id |-> n]}]

Macaroons == {Macaroon(n) : n \in 0..MaxRoots}

\* The discharge macaroon the provider binds to caveat id c.
Discharge(c) == [discharge_for |-> c]

\* authentication.is_authenticated: openid present and non-empty.
is_authenticated(s) == Has(s, "openid") /\ DOMAIN s["openid"] # {}

\* authentication.empty_session: clears all session fields.
empty_session(s) == EmptyDict

\* authentication.get_caveat_id: the third-party caveats of the root
\* macaroon that are addressed to the provider (exactly one is expected).
ProviderCaveats(root) == {c \in root.caveats : c.location = LoginHost}

caveat_id_fails(root) == Cardinality(ProviderCaveats(root)) # 1

get_caveat_id(root) == (CHOOSE c \in ProviderCaveats(root) : TRUE).caveat_id

\* authentication.request_macaroon: what the issuance call can end in.
IssuanceOutcomes ==
    { [raises |-> "none", status_code |-> 200, root |-> m] : m \in Macaroons }
    \cup { [raises |-> "ApiResponseError", status_code |-> c, root |-> Macaroon(0)]
             : c \in {401, 500} }
    \cup { [raises |-> e, status_code |-> 0, root |-> Macaroon(0)]
             : e \in {"ApiCircuitBreaker", "ApiError"} }

(***************************************************************************)
(* HTTP responses of the handlers                                          *)
(***************************************************************************)
Redirect(url) == [status |-> 302, location |-> url]

Abort(code) == [status |-> code, location |-> <<>>]

\* An exception that no handler catches.
ServerError == [status |-> 500, location |-> <<>>]

\* login.url_for(".logout"): the route of line 359.
LogoutRoute == <<"/","l","o","g","o","u","t">>

\* What open_id.try_login answers: the redirect to the provider.
ProviderRedirect == Redirect(LOGIN_URL \o <<"/","+","o","p","e","n","i","d">>)

\* The destinations open_id.get_next_url() can return.
NextUrls == { <<"/">>, <<"/","a","c","c","o","u","n","t">> }

(***************************************************************************)
(* login_handler, views.py 297-323.  Result: the session afterwards, the   *)
(* response, the outbound calls made and the caveat ids sent to the        *)
(* provider.                                                               *)
(***************************************************************************)
\* on_issuance_error without the status test of line 304.
on_issuance_error_no_401(issue) ==
    IF issue.raises = "ApiCircuitBreaker" THEN Abort(503) ELSE Abort(502)

\* on_issuance_error with the ApiError clause ahead of the ApiCircuitBreaker one.
on_issuance_error_breaker_as_api_error(issue) ==
    IF issue.raises = "ApiResponseError"
    THEN IF issue.status_code = 401 THEN Redirect(LogoutRoute) ELSE Abort(502)
    ELSE Abort(502)

\* Lines 303-311: the response to each failure of request_macaroon.
on_issuance_error(issue) ==
    IF issue.raises = "ApiResponseError"
    THEN IF issue.status_code = 401 THEN Redirect(LogoutRoute) ELSE Abort(502)
    ELSE IF issue.raises = "ApiCircuitBreaker" THEN Abort(503)
    ELSE Abort(502)

\* Lines 301-323: the path of a session that is not authenticated.
acquire(s, next_url, issue) ==
    IF issue.raises # "none"
    THEN [session |-> s, http |-> on_issuance_error(issue),
          calls |-> <<"request_macaroon">>, sent |-> {}]
    ELSE IF caveat_id_fails(issue.root)
    THEN [session |-> s, http |-> ServerError,
          calls |-> <<"request_macaroon">>, sent |-> {}]
    ELSE [session |-> SetKey(s, "macaroon_root", issue.root),
          http |-> ProviderRedirect,
          calls |-> <<"request_macaroon", "try_login">>,
          sent |-> {get_caveat_id(issue.root)}]

\* login_handler without the test of line 298.
login_handler_always_acquires(s, next_url, issue) == acquire(s, next_url, issue)

\* login_handler sending an authenticated user to the site root.
login_handler_redirects_home(s, next_url, issue) ==
    IF is_authenticated(s)
    THEN [session |-> s, http |-> Redirect(<<"/">>), calls |-> <<>>, sent |-> {}]
    ELSE acquire(s, next_url, issue)

login_handler(s, next_url, issue) ==
    IF is_authenticated(s)
    THEN [session |-> s, http |-> Redirect(next_url), calls |-> <<>>, sent |-> {}]
    ELSE acquire(s, next_url, issue)

(***************************************************************************)
(* Backend responses (the requests library's Response, as far as the code  *)
(* reads it): raises is the exception of the network call itself, headers  *)
(* and body are dicts, valid_json says whether response.json() decodes.    *)
(***************************************************************************)
ExpiryHeader == [h \in {"WWW-Authenticate"} |-> "Macaroon needs_refresh=1"]

\* authentication.is_macaroon_expired: the backend's expiry header is set.
is_macaroon_expired(headers) ==
    /\ Has(headers, "WWW-Authenticate")
    /\ headers["WWW-Authenticate"] = "Macaroon needs_refresh=1"

ErrorEntry(code, message) == [code |-> code, message |-> message]

ErrorBody(code, message) ==
    [k \in {"error_list"} |-> <<ErrorEntry("other", {"first"}), ErrorEntry(code, message)>>]

\* An account record: the user's store name and the snaps the account can
\* see, each with its publisher.
AccountBody ==
    [username |-> "alice-store", displayname |-> "Alice Store",
     email |-> "alice@store",
     snaps |-> {[name |-> "mine", publisher |-> "alice-store"],
                [name |-> "theirs", publisher |-> "bob-store"]}]

\* An account record without the snaps listing.
AccountNoSnaps ==
    [username |-> "alice-store", displayname |-> "Alice Store",
     email |-> "alice@store"]

SnapBody == [snap_id |-> "snap-1", snap_name |-> "mine"]

Bodies ==
    { EmptyDict, AccountBody, AccountNoSnaps, SnapBody,
      ErrorBody("user-not-ready", {"has not signed agreement"}),
      ErrorBody("user-not-ready", {"missing store username"}),
      ErrorBody("user-not-ready", {"something else"}),
      ErrorBody("invalid-field", {"has not signed agreement"}) }

Response(raises, headers, status_code, valid_json, body) ==
    [raises |-> raises, headers |-> headers, status_code |-> status_code,
     valid_json |-> valid_json, body |-> body]

\* A 204 carries no content; a body that does not decode is shown as empty.
Responses ==
    { Response(e, EmptyDict, 0, FALSE, EmptyDict)
        : e \in {"ApiCircuitBreaker", "ApiConnectionError"} }
    \cup { Response("none", h, c, TRUE, b)
        : h \in {EmptyDict, ExpiryHeader}, c \in {200, 400}, b \in Bodies }
    \cup { Response("none", h, c, FALSE, EmptyDict)
        : h \in {EmptyDict, ExpiryHeader}, c \in {200, 204, 400} }

\* What the account endpoint answers to the fetch of after_login.
AccountResponses ==
    { Response(e, EmptyDict, 0, FALSE, EmptyDict)
        : e \in {"ApiCircuitBreaker", "ApiConnectionError"} }
    \cup { Response("none", EmptyDict, 200, TRUE, b)
        : b \in {EmptyDict, AccountBody, AccountNoSnaps} }
    \cup { Response("none", ExpiryHeader, 200, TRUE, AccountBody),
           Response("none", EmptyDict, 200, FALSE, EmptyDict),
           Response("none", EmptyDict, 400, TRUE, EmptyDict),
           Response("none", EmptyDict, 400, TRUE,
                    ErrorBody("user-not-ready", {"missing store username"})) }

\* requests' Response.ok
ok(response) == response.status_code < 400

Return(v) == [kind |-> "return", error |-> "", value |-> v]

Raise(e) == [kind |-> "raise", error |-> e, value |-> EmptyDict]

(***************************************************************************)
(* process_response, views.py 26-54                                        *)
(***************************************************************************)
\* The loop of lines 37-42: the first entry that raises decides.
RECURSIVE user_not_ready(_)
user_not_ready(errors) ==
    IF errors = <<>> THEN "none"
    ELSE LET error == Head(errors) IN
         IF error.code = "user-not-ready"
               /\ "has not signed agreement" \in error.message
         THEN "AgreementNotSigned"
         ELSE IF error.code = "user-not-ready"
               /\ "missing store username" \in error.message
         THEN "MissingUsername"
         ELSE user_not_ready(Tail(errors))

process_response(response) ==
    IF ~response.valid_json THEN Raise("ApiResponseDecodeError")
    ELSE IF ~ok(response)
    THEN IF Has(response.body, "error_list")
         THEN IF user_not_ready(response.body["error_list"]) # "none"
              THEN Raise(user_not_ready(response.body["error_list"]))
              ELSE Raise("ApiResponseErrorList")
         ELSE IF DOMAIN response.body = {}
         THEN Raise("ApiResponseError")
         ELSE Return(response.body)
    ELSE Return(response.body)

(***************************************************************************)
(* The authenticated operations, views.py 57-287.  Result: what the        *)
(* operation returns or raises, and the backend requests it issued.        *)
(***************************************************************************)
\* authentication.get_authorization_header: the discharge bound to the root.
bind(root, discharge) ==
    [root |-> root.serial, discharge |-> discharge.discharge_for]

\* views.py 57-62: a missing session key raises KeyError.
header_fails(s) == ~Has(s, "macaroon_root") \/ ~Has(s, "macaroon_discharge")

get_authorization_header(s) ==
    [h \in {"Authorization"} |-> bind(s["macaroon_root"], s["macaroon_discharge"])]

\* The pattern every operation follows: build the header, issue the
\* request, check the expiry header, then hand the response to `parse`.
Outcome(result, calls) == [result |-> result, calls |-> calls]

\* issue_request reading the session keys leniently (dict.get): the
\* request goes out although a macaroon is missing.
issue_request_lenient_header(s, url, response, parsed) ==
    LET call == [url |-> url,
                 headers |-> IF header_fails(s) THEN EmptyDict
                             ELSE get_authorization_header(s)] IN
    IF response.raises # "none"
    THEN Outcome(Raise(response.raises), <<call>>)
    ELSE IF is_macaroon_expired(response.headers)
    THEN Outcome(Raise("MacaroonRefreshRequired"), <<call>>)
    ELSE Outcome(parsed, <<call>>)

\* issue_request repeating the request once when the macaroon has expired.
issue_request_retries(s, url, response, parsed) ==
    IF header_fails(s) THEN Outcome(Raise("KeyError"), <<>>)
    ELSE LET call == [url |-> url, headers |-> get_authorization_header(s)] IN
         IF response.raises # "none"
         THEN Outcome(Raise(response.raises), <<call>>)
         ELSE IF is_macaroon_expired(response.headers)
         THEN Outcome(Raise("MacaroonRefreshRequired"), <<call, call>>)
         ELSE Outcome(parsed, <<call>>)

\* issue_request handing the response to the parser before the expiry check.
issue_request_parse_first(s, url, response, parsed) ==
    IF header_fails(s) THEN Outcome(Raise("KeyError"), <<>>)
    ELSE LET call == [url |-> url, headers |-> get_authorization_header(s)] IN
         IF response.raises # "none"
         THEN Outcome(Raise(response.raises), <<call>>)
         ELSE IF parsed.kind = "raise"
         THEN Outcome(parsed, <<call>>)
         ELSE IF is_macaroon_expired(response.headers)
         THEN Outcome(Raise("MacaroonRefreshRequired"), <<call>>)
         ELSE Outcome(parsed, <<call>>)

issue_request(s, url, response, parsed) ==
    IF header_fails(s) THEN Outcome(Raise("KeyError"), <<>>)
    ELSE LET call == [url |-> url, headers |-> get_authorization_header(s)] IN
         IF response.raises # "none"
         THEN Outcome(Raise(response.raises), <<call>>)
         ELSE IF is_macaroon_expired(response.headers)
         THEN Outcome(Raise("MacaroonRefreshRequired"), <<call>>)
         ELSE Outcome(parsed, <<call>>)

\* response.json()
json(response) ==
    IF response.valid_json THEN Return(response.body) ELSE Raise("ValueError")

get_account(s, response) ==
    issue_request(s, "ACCOUNT_URL", response, process_response(response))

get_agreement(s, response) ==
    issue_request(s, "AGREEMENT_URL", response, json(response))

post_agreement(s, response) ==
    issue_request(s, "AGREEMENT_URL", response, process_response(response))

post_username(s, response) ==
    issue_request(s, "ACCOUNT_URL", response,
                  IF response.status_code = 204 THEN Return(EmptyDict)
                  ELSE process_response(response))

get_publisher_metrics(s, response) ==
    issue_request(s, "SNAP_PUB_METRICS_URL", response, process_response(response))

post_register_name(s, response) ==
    issue_request(s, "REGISTER_NAME_URL", response, process_response(response))

post_register_name_dispute(s, response) ==
    issue_request(s, "REGISTER_NAME_DISPUTE_URL", response, process_response(response))

get_snap_info(s, response) ==
    issue_request(s, "SNAP_INFO_URL", response, process_response(response))

get_snap_id(s, response) ==
    LET info == get_snap_info(s, response) IN
    IF info.result.kind = "raise" THEN info
    ELSE IF Has(info.result.value, "snap_id")
    THEN Outcome(Return([k \in {"snap_id"} |-> info.result.value["snap_id"]]),
                 info.calls)
    ELSE Outcome(Raise("KeyError"), info.calls)

snap_metadata(s, response) ==
    issue_request(s, "METADATA_QUERY_URL", response, process_response(response))

snap_screenshots(s, response) ==
    issue_request(s, "SCREENSHOTS_QUERY_URL", response, process_response(response))

snap_revision_history(s, response) ==
    issue_request(s, "REVISION_HISTORY_URL", response, process_response(response))

snap_release_history(s, response) ==
    issue_request(s, "SNAP_RELEASE_HISTORY_URL", response, process_response(response))

post_snap_release(s, response) ==
    issue_request(s, "SNAP_RELEASE", response, process_response(response))

post_close_channel(s, response) ==
    issue_request(s, "CLOSE_CHANNEL", response, process_response(response))

Operations ==
    { "get_account", "get_agreement", "post_agreement", "post_username",
      "get_publisher_metrics", "post_register_name",
      "post_register_name_dispute", "get_snap_info", "get_snap_id",
      "snap_metadata", "snap_screenshots", "snap_revision_history",
      "snap_release_history", "post_snap_release", "post_close_channel" }

operation(name, s, response) ==
    CASE name = "get_account" -> get_account(s, response)
      [] name = "get_agreement" -> get_agreement(s, response)
      [] name = "post_agreement" -> post_agreement(s, response)
      [] name = "post_username" -> post_username(s, response)
      [] name = "get_publisher_metrics" -> get_publisher_metrics(s, response)
      [] name = "post_register_name" -> post_register_name(s, response)
      [] name = "post_register_name_dispute" -> post_register_name_dispute(s, response)
      [] name = "get_snap_info" -> get_snap_info(s, response)
      [] name = "get_snap_id" -> get_snap_id(s, response)
      [] name = "snap_metadata" -> snap_metadata(s, response)
      [] name = "snap_screenshots" -> snap_screenshots(s, response)
      [] name = "snap_revision_history" -> snap_revision_history(s, response)
      [] name = "snap_release_history" -> snap_release_history(s, response)
      [] name = "post_snap_release" -> post_snap_release(s, response)
      [] name = "post_close_channel" -> post_close_channel(s, response)

(***************************************************************************)
(* The provider's response handed to after_login (flask_openid's           *)
(* OpenIDResponse): the identity attributes and the extensions mapping.    *)
(***************************************************************************)
Extensions ==
    { [macaroon |-> [discharge |-> Discharge(c)], lp |-> [is_member |-> m]]
        : c \in 1..MaxRoots, m \in {{}, {LP_CANONICAL_TEAM}} }

ProviderResponses ==
    { [identity_url |-> "https://login.ubuntu.com/+id/alice",
       nickname |-> n, fullname |-> "Alice Provider", image |-> "alice.png",
       email |-> "alice@provider", extensions |-> e]
        : n \in {"", "alice"}, e \in Extensions }

\* logic.get_snap_names_by_ownership (not part of the sources at hand):
\* the snaps of the account split into owned and shared with the user.
ownership_fails(account) == ~Has(account, "snaps") \/ ~Has(account, "username")

get_snap_names_by_ownership(account) ==
    [owned |-> {x.name : x \in {y \in account["snaps"] : y.publisher = account["username"]}},
     shared |-> {x.name : x \in {y \in account["snaps"] : y.publisher # account["username"]}}]

(***************************************************************************)
(* after_login, views.py 326-356                                           *)
(***************************************************************************)
\* Lines 334-341: the session projection built from the account record.
account_openid(resp, account) ==
    [identity_url |-> resp.identity_url,
     nickname |-> account["username"],
     fullname |-> account["displayname"],
     image |-> resp.image,
     email |-> account["email"],
     is_canonical |-> LP_CANONICAL_TEAM \in resp.extensions["lp"].is_member]

\* The lookups of lines 334-341 that raise KeyError.
account_openid_fails(resp, account) ==
    \/ ~Has(account, "username")
    \/ ~Has(account, "displayname")
    \/ ~Has(account, "email")

\* degrade updating the openid record in place instead of replacing it.
degrade_update(s, resp) ==
    LET new == [identity_url |-> resp.identity_url,
                nickname |-> resp.nickname,
                fullname |-> resp.fullname,
                image |-> resp.image,
                email |-> resp.email]
        old == IF Has(s, "openid") THEN s["openid"] ELSE EmptyDict
    IN  SetKey(s, "openid",
               [k \in (DOMAIN old) \cup (DOMAIN new) |->
                   IF k \in DOMAIN new THEN new[k] ELSE old[k]])

\* Lines 347-354: the handler of every exception but ApiCircuitBreaker.
degrade(s, resp) ==
    SetKey(s, "openid",
           [identity_url |-> resp.identity_url,
            nickname |-> resp.nickname,
            fullname |-> resp.fullname,
            image |-> resp.image,
            email |-> resp.email])

Handled(s, http, fetch) ==
    [session |-> s, http |-> http, calls |-> fetch.calls, fetch |-> fetch.result]

NotFetched == Outcome(Raise("not called"), <<>>)

\* enrich with ApiCircuitBreaker falling into the general except clause.
enrich_breaker_degrades(s, next_url, resp, response) ==
    LET fetch == get_account(s, response) IN
    IF fetch.result.kind = "raise"
    THEN Handled(degrade(s, resp), Redirect(next_url), fetch)
    ELSE LET account == fetch.result.value IN
         IF account_openid_fails(resp, account)
         THEN Handled(degrade(s, resp), Redirect(next_url), fetch)
         ELSE LET s2 == SetKey(s, "openid", account_openid(resp, account)) IN
              IF ownership_fails(account)
              THEN Handled(degrade(s2, resp), Redirect(next_url), fetch)
              ELSE Handled(SetKey(s2, "user_shared_snaps",
                                  get_snap_names_by_ownership(account).shared),
                           Redirect(next_url), fetch)

\* Lines 332-356, entered with the discharge stored in s.
enrich(s, next_url, resp, response) ==
    LET fetch == get_account(s, response) IN
    IF fetch.result.kind = "raise"
    THEN IF fetch.result.error = "ApiCircuitBreaker"
         THEN Handled(s, Abort(503), fetch)
         ELSE Handled(degrade(s, resp), Redirect(next_url), fetch)
    ELSE LET account == fetch.result.value IN
         IF account_openid_fails(resp, account)
         THEN Handled(degrade(s, resp), Redirect(next_url), fetch)
         ELSE LET s2 == SetKey(s, "openid", account_openid(resp, account)) IN
              IF ownership_fails(account)
              THEN Handled(degrade(s2, resp), Redirect(next_url), fetch)
              ELSE Handled(SetKey(s2, "user_shared_snaps",
                                  get_snap_names_by_ownership(account).shared),
                           Redirect(next_url), fetch)

\* after_login without the test of line 329.
after_login_no_nickname_check(s, next_url, resp, response) ==
    enrich(SetKey(s, "macaroon_discharge", resp.extensions["macaroon"].discharge),
           next_url, resp, response)

after_login(s, next_url, resp, response) ==
    LET s1 == SetKey(s, "macaroon_discharge",
                     resp.extensions["macaroon"].discharge) IN
    IF resp.nickname = ""
    THEN Handled(s1, Redirect(LOGIN_URL), NotFetched)
    ELSE enrich(s1, next_url, resp, response)

(***************************************************************************)
(* urllib.parse.quote, as used at views.py 369                             *)
(***************************************************************************)
Letters ==
    {"a","b","c","d","e","f","g","h","i","j","k","l","m","n","o","p","q","r",
     "s","t","u","v","w","x","y","z","A","B","C","D","E","F","G","H","I","J",
     "K","L","M","N","O","P","Q","R","S","T","U","V","W","X","Y","Z"}

Digits == {"0","1","2","3","4","5","6","7","8","9"}

\* The characters quote never escapes.
AlwaysSafe == Letters \cup Digits \cup {"_", ".", "-", "~"}

\* The ASCII code of the other characters a URL root is made of.
Ord(c) ==
    CASE c = " " -> 32 [] c = "%" -> 37 [] c = "&" -> 38 [] c = "+" -> 43
      [] c = "/" -> 47 [] c = ":" -> 58 [] c = "=" -> 61 [] c = "?" -> 63
      [] c = "@" -> 64

HexDigits == <<"0","1","2","3","4","5","6","7","8","9","A","B","C","D","E","F">>

RECURSIVE quote(_, _)
quote(string, safe) ==
    IF string = <<>> THEN <<>>
    ELSE LET c == Head(string) IN
         (IF c \in AlwaysSafe \cup safe THEN <<c>>
          ELSE <<"%", HexDigits[(Ord(c) \div 16) + 1], HexDigits[(Ord(c) % 16) + 1]>>)
         \o quote(Tail(string), safe)

(***************************************************************************)
(* logout, views.py 359-372                                                *)
(***************************************************************************)
\* request.args of a logout request
LogoutArgs ==
    { EmptyDict } \cup { [k \in {"no_redirect"} |-> v] : v \in {"true", "false", "True"} }

\* request.url_root of the deployments
UrlRoots ==
    { <<"h","t","t","p",":","/","/","a",".","i","o","/">>,
      <<"h","t","t","p","s",":","/","/","l",":","8","0","/">> }

LogoutPath == <<"/","+","l","o","g","o","u","t","?","r","e","t","u","r","n","_","t","o","=">>

ReturnNow == <<"&","r","e","t","u","r","n","_","n","o","w","=","T","r","u","e">>

\* provider_logout_url with quote's default safe characters.
provider_logout_url_default_safe(url_root) ==
    LOGIN_URL \o LogoutPath \o quote(url_root, {"/"}) \o ReturnNow

\* Lines 369-372
provider_logout_url(url_root) ==
    LOGIN_URL \o LogoutPath \o quote(url_root, {}) \o ReturnNow

\* logout without the test of line 363.
logout_always_empties(s, args, url_root) ==
    [session |-> empty_session(s),
     calls |-> <<"empty_session">>,
     http |-> IF Has(args, "no_redirect") /\ args["no_redirect"] = "true"
              THEN Redirect(<<"/">>)
              ELSE Redirect(provider_logout_url(url_root))]

\* logout without lines 363-364.
logout_keeps_session(s, args, url_root) ==
    [session |-> s,
     calls |-> <<>>,
     http |-> IF Has(args, "no_redirect") /\ args["no_redirect"] = "true"
              THEN Redirect(<<"/">>)
              ELSE Redirect(provider_logout_url(url_root))]

logout(s, args, url_root) ==
    LET no_redirect == IF Has(args, "no_redirect") THEN args["no_redirect"]
                       ELSE "false"
    IN  [session |-> IF is_authenticated(s) THEN empty_session(s) ELSE s,
         calls |-> IF is_authenticated(s) THEN <<"empty_session">> ELSE <<>>,
         http |-> IF no_redirect = "true" THEN Redirect(<<"/">>)
                  ELSE Redirect(provider_logout_url(url_root))]

(***************************************************************************)
(* The login flow: requests of one user agent, in any order.               *)
(***************************************************************************)
Init ==
    /\ session = EmptyDict
    /\ asked = {}
    /\ last = [op |-> "none"]

LoginRequest ==
    \E next_url \in NextUrls, issue \in IssuanceOutcomes :
        LET r == login_handler(session, next_url, issue) IN
        /\ session' = r.session
        /\ asked' = asked \cup r.sent
        /\ last' = [op |-> "login", http |-> r.http, calls |-> r.calls,
                    sent |-> r.sent, issue |-> issue, next_url |-> next_url]

\* The provider's callback: /login with openid_complete, which
\* open_id.loginhandler hands to after_login.
ProviderCallback ==
    \E next_url \in NextUrls, resp \in ProviderResponses, response \in AccountResponses :
        LET r == after_login(session, next_url, resp, response) IN
        /\ session' = r.session
        /\ asked' = asked
        /\ last' = [op |-> "after_login", http |-> r.http, calls |-> r.calls,
                    resp |-> resp, fetch |-> r.fetch, next_url |-> next_url]

LogoutRequest ==
    \E args \in LogoutArgs, url_root \in UrlRoots :
        LET r == logout(session, args, url_root) IN
        /\ session' = r.session
        /\ asked' = asked
        /\ last' = [op |-> "logout", http |-> r.http, calls |-> r.calls,
                    args |-> args, url_root |-> url_root]

Next == LoginRequest \/ ProviderCallback \/ LogoutRequest

Spec == Init /\ [][Next]_vars

(***************************************************************************)
(* The authenticated operations, called by the surrounding application on  *)
(* each shape of session the login flow leaves behind.                     *)
(***************************************************************************)
ApiSessions ==
    { EmptyDict }
    \cup { [k \in {"macaroon_root"} |-> Macaroon(n)] : n \in 1..MaxRoots }
    \cup { [k \in {"macaroon_discharge"} |-> Discharge(c)] : c \in 1..MaxRoots }
    \cup { [macaroon_root |-> Macaroon(n), macaroon_discharge |-> Discharge(c)]
             : n \in 1..MaxRoots, c \in 1..MaxRoots }

InitApi ==
    /\ session \in ApiSessions
    /\ asked = {}
    /\ last = [op |-> "none"]

ApiCall ==
    \E name \in Operations, response \in Responses :
        LET r == operation(name, session, response) IN
        /\ session' = session
        /\ asked' = asked
        /\ last' = [op |-> name, response |-> response, result |-> r.result,
                    calls |-> r.calls]

NextApi == ApiCall

SpecApi == InitApi /\ [][NextApi]_vars
(***************************************************************************)
(* Properties                                                              *)
(***************************************************************************)
\* C1: in every reachable session state macaroon_discharge is present only
\* if macaroon_root is present in the same session.
C1_DischargeOnlyWithRoot ==
    Has(session, "macaroon_discharge") => Has(session, "macaroon_root")

C3_LoginWhenAuthenticated ==
    [][ (last'.op = "login" /\ is_authenticated(session))
        => /\ session' = session
           /\ last'.calls = <<>>
           /\ last'.sent = {}
           /\ last'.http = [status |-> 302, location |-> last'.next_url] ]_vars

C3_Witness ==
    /\ last.op = "login"
    /\ is_authenticated(session)
    /\ last.calls = <<>>
    /\ last.http.location = <<"/","a","c","c","o","u","n","t">>

\* C4: for every authenticated operation, a response carrying the expiry
\* header makes the operation fail with MacaroonRefreshRequired whatever
\* its status code and body are; it never raises a decode error and never
\* returns the body.
C4_ExpiryShortCircuits ==
    (/\ last.op \in Operations
     /\ last.calls # <<>>
     /\ last.response.raises = "none"
     /\ Has(last.response.headers, "WWW-Authenticate"))
    => /\ last.result.kind = "raise"
       /\ last.result.error = "MacaroonRefreshRequired"

\* An expired 200 response whose body is not JSON, seen by get_agreement.
C4_Witness ==
    /\ last.op = "get_agreement"
    /\ last.calls # <<>>
    /\ Has(last.response.headers, "WWW-Authenticate")
    /\ last.response.status_code = 200
    /\ ~last.response.valid_json
    /\ last.result.error = "MacaroonRefreshRequired"

\* C5: a login request on a session that is not authenticated, whose
\* macaroon issuance fails with ApiResponseError 401, is answered with a
\* redirect to the logout route, not with 502.
C5_Issuance401RedirectsToLogout ==
    [][ (/\ last'.op = "login"
         /\ ~is_authenticated(session)
         /\ last'.issue.raises = "ApiResponseError"
         /\ last'.issue.status_code = 401)
        => /\ last'.http.status = 302
           /\ last'.http.location = <<"/","l","o","g","o","u","t">> ]_vars

C5_Witness ==
    /\ last.op = "login"
    /\ last.calls = <<"request_macaroon">>
    /\ last.issue.raises = "ApiResponseError"
    /\ last.issue.status_code = 401
    /\ last.http.status = 302

\* C6: a login request on a session that is not authenticated, whose
\* macaroon issuance fails with ApiCircuitBreaker, is answered with 503 and
\* does not go on to the provider redirect.
C6_IssuanceBreakerIs503 ==
    [][ (/\ last'.op = "login"
         /\ ~is_authenticated(session)
         /\ last'.issue.raises = "ApiCircuitBreaker")
        => /\ last'.http.status = 503
           /\ last'.calls = <<"request_macaroon">>
           /\ last'.sent = {}
           /\ session' = session ]_vars

C6_Witness ==
    /\ last.op = "login"
    /\ last.calls = <<"request_macaroon">>
    /\ last.issue.raises = "ApiCircuitBreaker"
    /\ last.http.status = 503

\* C7: a provider callback without a nickname is answered with a redirect
\* to the provider's login URL, does not set openid and issues no account
\* fetch.
C7_NoNicknameNoSession ==
    [][ (last'.op = "after_login" /\ last'.resp.nickname = "")
        => /\ last'.http = [status |-> 302, location |-> LOGIN_URL]
           /\ last'.calls = <<>>
           /\ Has(session', "openid") = Has(session, "openid")
           /\ (Has(session, "openid") => session'["openid"] = session["openid"])
           /\ (~Has(session, "openid") => ~is_authenticated(session')) ]_vars

\* A callback without a nickname that left the session unauthenticated
\* with the discharge stored.
C7_Witness ==
    /\ last.op = "after_login"
    /\ last.resp.nickname = ""
    /\ Has(session, "macaroon_discharge")
    /\ ~Has(session, "openid")

\* The callback's account enrichment failed with an exception other than
\* ApiCircuitBreaker: at the fetch, or at a later step (a missing key of
\* the account record, the ownership partition).
EnrichmentFailed(l) ==
    \/ l.fetch.kind = "raise" /\ l.fetch.error # "ApiCircuitBreaker"
    \/ /\ l.fetch.kind = "return"
       /\ \E k \in {"username", "displayname", "email", "snaps"} :
              k \notin DOMAIN l.fetch.value

\* C8: a callback with a nickname whose enrichment fails with anything but
\* ApiCircuitBreaker leaves the session authenticated, openid holding
\* exactly the provider's identity_url, nickname, fullname, image and
\* email (no is_canonical), does not set user_shared_snaps and redirects
\* to the next-URL.
C8_DegradedSession ==
    [][ (/\ last'.op = "after_login"
         /\ last'.resp.nickname # ""
         /\ EnrichmentFailed(last'))
        => /\ is_authenticated(session')
           /\ DOMAIN session'["openid"] =
                 {"identity_url", "nickname", "fullname", "image", "email"}
           /\ \A k \in DOMAIN session'["openid"] :
                 session'["openid"][k] = last'.resp[k]
           /\ Has(session', "user_shared_snaps") = Has(session, "user_shared_snaps")
           /\ (Has(session, "user_shared_snaps")
                 => session'["user_shared_snaps"] = session["user_shared_snaps"])
           /\ last'.http = [status |-> 302, location |-> last'.next_url] ]_vars

\* The account was fetched, the ownership partition failed afterwards.
C8_Witness ==
    /\ last.op = "after_login"
    /\ last.resp.nickname # ""
    /\ last.fetch.kind = "return"
    /\ DOMAIN last.fetch.value = {"username", "displayname", "email"}
    /\ is_authenticated(session)
    /\ session["openid"].nickname = "alice"

\* urllib.parse.unquote, for texts that quote produces.
HexValue(d) == CHOOSE i \in 0..15 : HexDigits[i + 1] = d

Chr(n) == CHOOSE c \in {" ", "%", "&", "+", "/", ":", "=", "?", "@"} : Ord(c) = n

RECURSIVE unquote(_)
unquote(string) ==
    IF string = <<>> THEN <<>>
    ELSE IF Head(string) = "%" /\ Len(string) >= 3
    THEN <<Chr(16 * HexValue(string[2]) + HexValue(string[3]))>>
         \o unquote(SubSeq(string, 4, Len(string)))
    ELSE <<Head(string)>> \o unquote(Tail(string))

\* location is prefix, then a fully escaped text that decodes to root,
\* then suffix.
IsEscapedBetween(location, prefix, root, suffix) ==
    /\ Len(location) >= Len(prefix) + Len(suffix)
    /\ SubSeq(location, 1, Len(prefix)) = prefix
    /\ SubSeq(location, Len(location) - Len(suffix) + 1, Len(location)) = suffix
    /\ LET middle == SubSeq(location, Len(prefix) + 1, Len(location) - Len(suffix))
       IN  /\ \A i \in 1..Len(middle) : middle[i] \in AlwaysSafe \cup {"%"}
           /\ unquote(middle) = root

\* C9: logout with no_redirect "true" redirects to "/"; with any other
\* value or none it redirects to LOGIN_URL + "/+logout?return_to=" + the
\* fully URL-escaped site root + "&return_now=True", whether or not the
\* session was authenticated.
C9_LogoutRedirect ==
    last.op = "logout"
    => /\ last.http.status = 302
       /\ IF Has(last.args, "no_redirect") /\ last.args["no_redirect"] = "true"
          THEN last.http.location = <<"/">>
          ELSE IsEscapedBetween(
                   last.http.location,
                   LOGIN_URL \o <<"/","+","l","o","g","o","u","t","?",
                                  "r","e","t","u","r","n","_","t","o","=">>,
                   last.url_root,
                   <<"&","r","e","t","u","r","n","_","n","o","w","=","T","r","u","e">>)

\* A logout of an authenticated session answered with
\* https://login.ubuntu.com/+logout?return_to=http%3A%2F%2Fa.io%2F&return_now=True
C9_Witness ==
    /\ last.op = "logout"
    /\ last.calls = <<"empty_session">>
    /\ last.args = EmptyDict
    /\ last.http.location =
         <<"h","t","t","p","s",":","/","/","l","o","g","i","n",".",
           "u","b","u","n","t","u",".","c","o","m",
           "/","+","l","o","g","o","u","t","?","r","e","t","u","r","n","_","t","o","=",
           "h","t","t","p","%","3","A","%","2","F","%","2","F","a",".","i","o","%","2","F",
           "&","r","e","t","u","r","n","_","n","o","w","=","T","r","u","e">>

\* C10: a logout on an authenticated session clears every session field,
\* so the session is unauthenticated afterwards; the login request that
\* follows a logout calls the issuance endpoint again and stores the root
\* it gets.
C10_LogoutClearsSession ==
    [][ /\ (last'.op = "logout" /\ is_authenticated(session))
           => /\ \A k \in {"macaroon_root", "macaroon_discharge", "openid",
                            "user_shared_snaps"} : ~Has(session', k)
              /\ ~is_authenticated(session')
        /\ (last.op = "logout" /\ last'.op = "login")
           => /\ last'.calls # <<>>
              /\ Head(last'.calls) = "request_macaroon"
              /\ (last'.http.status = 302 /\ last'.issue.raises = "none"
                    => session'["macaroon_root"] = last'.issue.root) ]_vars

\* A logout that found the session authenticated and emptied it.
C10_Witness ==
    /\ last.op = "logout"
    /\ last.calls = <<"empty_session">>
    /\ DOMAIN session = {}
\* C11: a logout on a session that is not authenticated leaves every
\* session field unchanged, a macaroon_root or macaroon_discharge stored by
\* an incomplete login included.
C11_LogoutWhenNotAuthenticated ==
    [][ (last'.op = "logout" /\ ~is_authenticated(session))
        => session' = session ]_vars

\* A logout answered on a session that holds both macaroons and no openid.
C11_Witness ==
    /\ last.op = "logout"
    /\ last.calls = <<>>
    /\ Has(session, "macaroon_root")
    /\ Has(session, "macaroon_discharge")
    /\ ~Has(session, "openid")

\* C12: every failure of the acquisition step of a login request other
\* than a 401 and a circuit-breaker failure (another status code, a generic
\* ApiError, a root macaroon without the caveat identifier) is answered
\* with 502.
C12_OtherAcquisitionFailuresAre502 ==
    (/\ last.op = "login"
     /\ last.calls # <<>>
     /\ ~(last.issue.raises = "ApiResponseError" /\ last.issue.status_code = 401)
     /\ last.issue.raises # "ApiCircuitBreaker"
     /\ \/ last.issue.raises # "none"
        \/ \A c \in last.issue.root.caveats : c.location # "login.ubuntu.com")
    => last.http.status = 502

\* C13: when the account fetch of the callback fails with
\* ApiCircuitBreaker, the callback is answered with 503, openid is not set
\* (a session that was not authenticated stays so) and no redirect to the
\* next-URL is returned.
C13_FetchBreakerIs503 ==
    [][ (/\ last'.op = "after_login"
         /\ last'.fetch.kind = "raise"
         /\ last'.fetch.error = "ApiCircuitBreaker")
        => /\ last'.http.status = 503
           /\ last'.http.location = <<>>
           /\ Has(session', "openid") = Has(session, "openid")
           /\ (Has(session, "openid") => session'["openid"] = session["openid"])
           /\ (~is_authenticated(session) => ~is_authenticated(session')) ]_vars

C13_Witness ==
    /\ last.op = "after_login"
    /\ last.fetch.error = "ApiCircuitBreaker"
    /\ last.calls # <<>>
    /\ last.http.status = 503
    /\ Has(session, "macaroon_discharge")
    /\ ~Has(session, "openid")

\* The response l.response arrived, and does not carry the expiry header.
Answered(l) ==
    /\ l.op \in Operations
    /\ l.calls # <<>>
    /\ l.response.raises = "none"
    /\ ~Has(l.response.headers, "WWW-Authenticate")

\* C14: for every authenticated operation, a non-expired response whose
\* body is not valid JSON makes the operation fail with
\* ApiResponseDecodeError, never with another error kind.  (A 204, which
\* carries no body, is the subject of C15.)
C14_InvalidJsonIsDecodeError ==
    (/\ Answered(last)
     /\ ~last.response.valid_json
     /\ last.response.status_code # 204)
    => /\ last.result.kind = "raise"
       /\ last.result.error = "ApiResponseDecodeError"

\* C15: for every authenticated operation, a non-expired 204 response is
\* returned as an empty success result, not reported as a decode error.
C15_NoContentIsEmptySuccess ==
    (Answered(last) /\ last.response.status_code = 204)
    => /\ last.result.kind = "return"
       /\ DOMAIN last.result.value = {}

\* The operations that return what process_response returns.
ProcessedOperations == Operations \ {"get_agreement", "get_snap_id"}

\* C16: process_response never returns the body of a non-ok response: with
\* a body that decodes (with error_list, empty, or non-empty without
\* error_list) it raises AgreementNotSigned, MissingUsername,
\* ApiResponseErrorList or ApiResponseError.
C16_NonOkNeverReturnsBody ==
    (/\ Answered(last)
     /\ last.op \in ProcessedOperations
     /\ last.response.valid_json
     /\ last.response.status_code >= 400)
    => /\ last.result.kind = "raise"
       /\ last.result.error \in {"AgreementNotSigned", "MissingUsername",
                                 "ApiResponseErrorList", "ApiResponseError"}

\* C17: no authenticated request is issued from a session in which
\* macaroon_root or macaroon_discharge is absent: the operation fails while
\* building the authorization header, before any network call; a request
\* that is issued carries the session's root bound to its discharge.
C17_NoRequestWithoutMacaroons ==
    last.op \in Operations
    => /\ (~Has(session, "macaroon_root") \/ ~Has(session, "macaroon_discharge"))
          => /\ last.calls = <<>>
             /\ last.result.kind = "raise"
             /\ last.result.error = "KeyError"
       /\ \A i \in 1..Len(last.calls) :
             /\ Has(last.calls[i].headers, "Authorization")
             /\ last.calls[i].headers["Authorization"].root
                   = session["macaroon_root"].serial
             /\ last.calls[i].headers["Authorization"].discharge
                   = session["macaroon_discharge"].discharge_for

\* get_account called on a session that holds a root and no discharge.
C17_Witness ==
    /\ last.op = "get_account"
    /\ Has(session, "macaroon_root")
    /\ ~Has(session, "macaroon_discharge")
    /\ last.calls = <<>>
    /\ last.result.error = "KeyError"

\* C18: after a response that signals macaroon expiry the operation issues
\* no further request (no retry, no refresh), leaves macaroon_root and
\* macaroon_discharge unchanged and hands MacaroonRefreshRequired to its
\* caller.
C18_ExpiryIsNotRetried ==
    [][ (/\ last'.op \in Operations
         /\ last'.calls # <<>>
         /\ last'.response.raises = "none"
         /\ Has(last'.response.headers, "WWW-Authenticate"))
        => /\ Len(last'.calls) = 1
           /\ session' = session
           /\ last'.result = [kind |-> "raise", error |-> "MacaroonRefreshRequired",
                              value |-> EmptyDict] ]_vars

C18_Witness ==
    /\ last.op = "post_snap_release"
    /\ Has(last.response.headers, "WWW-Authenticate")
    /\ Len(last.calls) = 1
    /\ last.calls[1].url = "SNAP_RELEASE"
    /\ last.result.error = "MacaroonRefreshRequired"
    /\ Has(session, "macaroon_root")
    /\ Has(session, "macaroon_discharge")

\* C19: in every reachable session state, an authenticated session holds
\* both macaroon_root and macaroon_discharge.
C19_AuthenticatedHasBothMacaroons ==
    is_authenticated(session)
    => Has(session, "macaroon_root") /\ Has(session, "macaroon_discharge")

\* C20: under any interleaving of the login requests and provider
\* callbacks of one session, a stored macaroon_discharge is the discharge
\* issued for the caveat identifier of the stored macaroon_root.
C20_DischargeMatchesRoot ==
    (/\ Has(session, "macaroon_root")
     /\ Has(session, "macaroon_discharge")
     /\ session["macaroon_discharge"].discharge_for \in asked)
    => \E c \in session["macaroon_root"].caveats :
          /\ c.location = "login.ubuntu.com"
          /\ c.caveat_id = session["macaroon_discharge"].discharge_for
=============================================================================
